---- MODULE Spec2Model ----
(***************************************************************************)
(* LogRetention / LogRetentionFunction of aws-logs/lib/log-retention.ts:   *)
(* the per-stack singleton provider function, the policy statements that   *)
(* accumulate on its role, the dependencies derived from the role's        *)
(* children and the Custom::LogRetention resources that are emitted.       *)
(* One `new LogRetention(scope, id, props)` runs as a chain of steps       *)
(* (pc), in the order of the constructor's statements; nothing else runs   *)
(* while a construction is in progress.                                    *)
(***************************************************************************)
EXTENDS Naturals, Sequences, FiniteSets, TLC

VARIABLES
  pc,           \* position inside the running LogRetention constructor, or "idle"
  cur,          \* the running construction: scope, id, props, provider
  nodes,        \* the LogRetention constructs registered by super(scope, id)
  registry,     \* per scope: the child found under functionLogicalId, if any
  roles,        \* per role: whether it exists, its node.children, its statements
  descriptors,  \* the Custom::LogRetention resources created so far
  result,       \* outcome of the latest constructor call
  pre,          \* registry, roles and descriptors when the latest call started
  factoryRuns,  \* number of LogRetentionFunction constructor invocations
  tables,       \* the Glue tables created so far
  tableInput,   \* columns and partition keys of the latest S3Table construction
  tableResult   \* outcome of the latest S3Table construction

logsVars == <<pc, cur, nodes, registry, roles, descriptors, result, pre, factoryRuns>>
glueVars == <<tables, tableInput, tableResult>>
vars == <<logsVars, glueVars>>

-----------------------------------------------------------------------------
(* Optional values: a JavaScript `undefined` is the empty tuple.           *)
None == <<>>
Some(v) == <<v>>
IsSome(o) == o # <<>>

-----------------------------------------------------------------------------
(* Bounds of the model.                                                    *)
MaxBuilds == 2
MaxRoleChildren == 2
MaxColumns == 2
MaxTables == 2

-----------------------------------------------------------------------------
(* Program constants.                                                      *)
functionLogicalId == "LogRetentionaae0aa3c5b4d4f87b02d85b201efdd8a"
INFINITE == 9999
DESTROY == "destroy"
RETAIN == "retain"

StackScope == "Stack"
NestedScope == "Stack/Nested"
AllScopes == {StackScope, NestedScope}

UserRole == "UserRole"

(* cdk.Stack.of(construct): the stack enclosing a scope.                   *)
ScopeItself(scope) == scope
StackOf(scope) == StackScope

ServiceRoleOf(fnScope) == fnScope \o "/" \o functionLogicalId \o "/ServiceRole"
AllRoles == {UserRole} \cup {ServiceRoleOf(s) : s \in AllScopes}

-----------------------------------------------------------------------------
(* Stack.formatArn with arnFormat COLON_RESOURCE_NAME: the components      *)
(* joined by ':'; partition and account are the stack's tokens, the region *)
(* is the one passed or else the stack's token.                            *)
FormatArn(region, service, resource, resourceName) ==
  "arn:${AWS::Partition}:" \o service \o ":"
    \o (IF IsSome(region) THEN region[1] ELSE "${AWS::Region}")
    \o ":${AWS::AccountId}:" \o resource \o ":" \o resourceName

(* LogRetention constructor: logGroupBaseArn and this.logGroupArn.         *)
LogGroupBaseArn(props) ==
  FormatArn(props.logGroupRegion, "logs", "log-group", props.logGroupName)
ArnSuffix == ":*"
LogGroupArn(props) == LogGroupBaseArn(props) \o ArnSuffix

-----------------------------------------------------------------------------
(* iam.PolicyStatement values built by LogRetentionFunction.               *)
NarrowedBaselineStatement ==
  [actions |-> <<"logs:PutRetentionPolicy", "logs:DeleteRetentionPolicy">>,
   resources |-> <<FormatArn(None, "logs", "log-group", functionLogicalId)>>]
BaselineStatement ==
  [actions |-> <<"logs:PutRetentionPolicy", "logs:DeleteRetentionPolicy">>,
   resources |-> <<"*">>]
PropagateTagsStatement(logGroupArn) ==
  [actions |-> <<"logs:ListTagsForResource", "logs:TagResource", "logs:UntagResource">>,
   resources |-> <<logGroupArn>>]
DeleteLogGroupStatement(logGroupArn) ==
  [actions |-> <<"logs:DeleteLogGroup">>,
   resources |-> <<logGroupArn>>]

-----------------------------------------------------------------------------
(* Children of a role node.  A child is a CfnResource or not, and its      *)
(* node.defaultChild is absent, a CfnResource, or some other construct.    *)
Child(id, isCfn, dflt) == [id |-> id, isCfnResource |-> isCfn, defaultChild |-> dflt]
DefaultKinds == {"none", "cfn", "other"}
CfnRoleChild == Child("Resource", TRUE, "none")
DefaultPolicyChild == Child("DefaultPolicy", FALSE, "cfn")

ChildPath(role, child) == role \o "/" \o child.id
DefaultChildPath(role, child) == ChildPath(role, child) \o "/Resource"

HasChild(children, id) == \E i \in 1..Len(children) : children[i].id = id

(* iam.Role.addToPrincipalPolicy: the statement is appended to the role's  *)
(* default policy, which is created as the child 'DefaultPolicy' (a Policy *)
(* whose default child is the CfnPolicy) the first time it is needed.      *)
AddToPrincipalPolicy(rs, role, statement) ==
  [rs EXCEPT ![role] =
     [exists |-> TRUE,
      children |-> IF HasChild(@.children, "DefaultPolicy")
                     THEN @.children
                     ELSE Append(@.children, DefaultPolicyChild),
      statements |-> Append(@.statements, statement)]]

(* PolicyDocument rendering: duplicate statements are dropped, the first   *)
(* occurrence of each statement is kept.                                   *)
RECURSIVE Dedup(_)
Dedup(stmts) ==
  IF stmts = <<>> THEN <<>>
  ELSE LET front == Dedup(SubSeq(stmts, 1, Len(stmts) - 1))
           last == stmts[Len(stmts)]
       IN  IF \E i \in 1..Len(front) : front[i] = last
             THEN front
             ELSE Append(front, last)
NoDedup(stmts) == stmts
RenderPolicy(stmts) == Dedup(stmts)

-----------------------------------------------------------------------------
(* LogRetentionFunction constructor, "Function dependencies": the targets  *)
(* of the resource.addDependency calls made for one child, then for all    *)
(* children in order.                                                      *)
ChildDependenciesElse(role, child) ==
  IF child.isCfnResource THEN <<ChildPath(role, child)>>
  ELSE IF child.defaultChild = "cfn" THEN <<DefaultChildPath(role, child)>>
  ELSE <<>>
ChildDependencies(role, child) ==
  (IF child.isCfnResource THEN <<ChildPath(role, child)>> ELSE <<>>)
    \o (IF child.defaultChild = "cfn" THEN <<DefaultChildPath(role, child)>> ELSE <<>>)

RECURSIVE DeriveDependencies(_, _)
DeriveDependencies(role, children) ==
  IF children = <<>> THEN <<>>
  ELSE ChildDependencies(role, Head(children))
         \o DeriveDependencies(role, Tail(children))

-----------------------------------------------------------------------------
(* cdk.Duration: an amount (a fraction num/den) of a unit worth            *)
(* unitInMillis milliseconds.  toMilliseconds() fails unless the result is *)
(* a whole number.                                                         *)
Duration(num, den, unitInMillis) == [num |-> num, den |-> den, unitInMillis |-> unitInMillis]
CanConvertToMillis(d) == (d.num * d.unitInMillis) % d.den = 0
ToMilliseconds(d) == (d.num * d.unitInMillis) \div d.den

(* LogRetention constructor: the SdkRetry property.                        *)
RetryThrows(retryOptions) ==
  /\ IsSome(retryOptions)
  /\ IsSome(retryOptions[1].base)
  /\ ~CanConvertToMillis(retryOptions[1].base[1])
SdkRetryAlways(retryOptions) ==
  Some([maxRetries |-> IF IsSome(retryOptions) THEN retryOptions[1].maxRetries ELSE None,
        base |-> IF IsSome(retryOptions) /\ IsSome(retryOptions[1].base)
                   THEN Some(ToMilliseconds(retryOptions[1].base[1]))
                   ELSE None])
SdkRetry(retryOptions) ==
  IF IsSome(retryOptions)
    THEN Some([maxRetries |-> retryOptions[1].maxRetries,
               base |-> IF IsSome(retryOptions[1].base)
                          THEN Some(ToMilliseconds(retryOptions[1].base[1]))
                          ELSE None])
    ELSE None

(* LogRetention constructor: the RetentionInDays property.                 *)
RetentionAlways(props) == Some(props.retention)
RetentionInDays(props) ==
  IF props.retention = INFINITE THEN None ELSE Some(props.retention)

(* LogRetention constructor: the Custom::LogRetention CfnResource (its     *)
(* Tags property, rendered lazily from the tag manager, is left out).      *)
DescriptorSuffixedArn(path, props, functionArn) ==
  [node |-> path \o "/Resource",
   type |-> "Custom::LogRetention",
   ServiceToken |-> functionArn,
   LogGroupName |-> props.logGroupName,
   LogGroupArn |-> LogGroupArn(props),
   LogGroupRegion |-> props.logGroupRegion,
   SdkRetry |-> SdkRetry(props.logRetentionRetryOptions),
   RetentionInDays |-> RetentionInDays(props),
   RemovalPolicy |-> props.removalPolicy,
   PropagateTags |-> props.propagateTags]
Descriptor(path, props, functionArn) ==
  [node |-> path \o "/Resource",
   type |-> "Custom::LogRetention",
   ServiceToken |-> functionArn,
   LogGroupName |-> props.logGroupName,
   LogGroupArn |-> LogGroupBaseArn(props),
   LogGroupRegion |-> props.logGroupRegion,
   SdkRetry |-> SdkRetry(props.logRetentionRetryOptions),
   RetentionInDays |-> RetentionInDays(props),
   RemovalPolicy |-> props.removalPolicy,
   PropagateTags |-> props.propagateTags]

-----------------------------------------------------------------------------
(* Inputs.  An input domain names the scopes and ids constructions are     *)
(* made under, the props they are given, and the children a role supplied  *)
(* by the caller may have.                                                 *)
PropsOver(names, regions, retentions, roleOpts, retries, removals, tags) ==
  [logGroupName : names, logGroupRegion : regions, retention : retentions,
   role : roleOpts, logRetentionRetryOptions : retries,
   removalPolicy : removals, propagateTags : tags]

ChildKinds == BOOLEAN \X DefaultKinds
KidsOfKinds(kinds) ==
  [i \in 1..Len(kinds) |-> Child("c" \o ToString(i), kinds[i][1], kinds[i][2])]
KidsUpTo(n) ==
  UNION {{KidsOfKinds(kinds) : kinds \in [1..k -> ChildKinds]} : k \in 0..n}

RetryOptions(maxRetries, base) == [maxRetries |-> maxRetries, base |-> base]
Seconds(num, den) == Duration(num, den, 1000)

(* Constructions that differ in what they ask of the shared function.      *)
SharedIn ==
  [scopes |-> AllScopes,
   ids |-> {"A", "B"},
   props |-> PropsOver({"group1", "group2"}, {None}, {14},
                       {None}, {None},
                       {None, Some(RETAIN), Some(DESTROY)},
                       {None, Some(FALSE), Some(TRUE)}),
   kids |-> {<<CfnRoleChild>>}]

(* Constructions that differ in the properties of the emitted resource.    *)
DescriptorIn ==
  [scopes |-> {StackScope},
   ids |-> {"A", "B"},
   props |-> PropsOver({"group1"}, {None, Some("us-west-2")}, {1, 14, INFINITE},
                       {None},
                       {None,
                        Some(RetryOptions(None, None)),
                        Some(RetryOptions(Some(5), None)),
                        Some(RetryOptions(None, Some(Seconds(1, 2)))),
                        Some(RetryOptions(Some(3), Some(Seconds(2, 1)))),
                        Some(RetryOptions(Some(5), Some(Seconds(3, 2000))))},
                       {None, Some(DESTROY)},
                       {None, Some(TRUE)}),
   kids |-> {<<CfnRoleChild>>}]

(* Constructions that differ in the role they supply.                      *)
RoleIn ==
  [scopes |-> {StackScope},
   ids |-> {"A", "B"},
   props |-> PropsOver({"group1"}, {None}, {14},
                       {None, Some(UserRole)}, {None},
                       {None, Some(DESTROY)},
                       {None, Some(TRUE)}),
   kids |-> KidsUpTo(MaxRoleChildren)]

-----------------------------------------------------------------------------
(* State.                                                                  *)
NoRole == [exists |-> FALSE, children |-> <<>>, statements |-> <<>>]
Cur == cur[1]
Path(scope, id) == scope \o "/" \o id
NodePaths == {n.path : n \in nodes}
Snapshot == [registry |-> registry, roles |-> roles, descriptors |-> descriptors]
DuplicateIdError == "There is already a Construct with name"
DurationError == "cannot be converted into a whole number of milliseconds"
Errors == {DuplicateIdError, DurationError}

Init ==
  /\ pc = "idle"
  /\ cur = None
  /\ nodes = {}
  /\ registry = [s \in AllScopes |-> None]
  /\ roles = [r \in AllRoles |-> NoRole]
  /\ descriptors = <<>>
  /\ result = "none"
  /\ pre = [registry |-> [s \in AllScopes |-> None],
            roles |-> [r \in AllRoles |-> NoRole],
            descriptors |-> <<>>]
  /\ factoryRuns = 0
  /\ tables = <<>>
  /\ tableInput = None
  /\ tableResult = "none"

-----------------------------------------------------------------------------
(* new LogRetention(scope, id, props): super(scope, id) registers the node *)
(* under its scope, or throws when the id is taken.  A node records the    *)
(* construct's path, its props and its logGroupArn attribute, which is not *)
(* assigned yet.                                                           *)
Construct(In) ==
  /\ pc = "idle"
  /\ Cardinality(nodes) < MaxBuilds
  /\ \E scope \in In.scopes, id \in In.ids :
       /\ pre' = Snapshot
       /\ IF Path(scope, id) \in NodePaths
            THEN /\ result' = DuplicateIdError
                 /\ UNCHANGED <<pc, cur, nodes>>
            ELSE \E props \in In.props :
                   /\ nodes' = nodes \cup {[path |-> Path(scope, id), props |-> props,
                                            logGroupArn |-> None]}
                   /\ cur' = Some([scope |-> scope, id |-> id, props |-> props,
                                   provider |-> None])
                   /\ pc' = "ensure"
                   /\ result' = "running"
  /\ UNCHANGED <<registry, roles, descriptors, factoryRuns, glueVars>>

(* ensureSingletonLogRetentionFunction: the existing child of the stack is *)
(* returned, or a LogRetentionFunction is constructed, whose super(scope,  *)
(* id) registers it under functionLogicalId.  cur.provider names the scope *)
(* that holds the function the constructor will use as provider.           *)
EnsureSingletonUnregistered ==
  /\ pc = "ensure"
  /\ LET stack == StackOf(Cur.scope)
     IN  IF IsSome(registry[stack])
           THEN /\ cur' = Some([Cur EXCEPT !.provider = Some(stack)])
                /\ pc' = "grants"
                /\ UNCHANGED <<registry, factoryRuns>>
           ELSE /\ UNCHANGED registry
                /\ factoryRuns' = factoryRuns + 1
                /\ cur' = Some([Cur EXCEPT !.provider = Some(stack)])
                /\ pc' = "fn_role"
  /\ UNCHANGED <<nodes, roles, descriptors, result, pre, glueVars>>
EnsureSingleton ==
  /\ pc = "ensure"
  /\ LET stack == StackOf(Cur.scope)
     IN  IF IsSome(registry[stack])
           THEN /\ cur' = Some([Cur EXCEPT !.provider = Some(stack)])
                /\ pc' = "grants"
                /\ UNCHANGED <<registry, factoryRuns>>
           ELSE /\ registry' = [registry EXCEPT ![stack] =
                                  Some([role |-> None, functionArn |-> None,
                                        dependencies |-> <<>>])]
                /\ factoryRuns' = factoryRuns + 1
                /\ cur' = Some([Cur EXCEPT !.provider = Some(stack)])
                /\ pc' = "fn_role"
  /\ UNCHANGED <<nodes, roles, descriptors, result, pre, glueVars>>

(* LogRetentionFunction constructor: the asset, the role (props.role or a  *)
(* new ServiceRole) and the baseline grant.  The asset has no part in the  *)
(* state.  A new ServiceRole has its CfnRole as only child; a supplied     *)
(* role comes with the children drawn here and no statement of its own.    *)
FnRole(In) ==
  /\ pc = "fn_role"
  /\ LET fnScope == Cur.provider[1]
         supplied == Cur.props.role
         role == IF IsSome(supplied) THEN supplied[1] ELSE ServiceRoleOf(fnScope)
     IN  /\ \E kids \in In.kids :
              LET rs == IF roles[role].exists THEN roles
                        ELSE [roles EXCEPT ![role] =
                                [exists |-> TRUE,
                                 children |-> IF IsSome(supplied) THEN kids
                                              ELSE <<CfnRoleChild>>,
                                 statements |-> <<>>]]
              IN  roles' = AddToPrincipalPolicy(rs, role, BaselineStatement)
         /\ registry' = [registry EXCEPT ![fnScope] = Some([@[1] EXCEPT !.role = Some(role)])]
  /\ pc' = "fn_resource"
  /\ UNCHANGED <<cur, nodes, descriptors, result, pre, factoryRuns, glueVars>>

(* LogRetentionFunction constructor: the AWS::Lambda::Function resource,   *)
(* functionArn and the dependencies on the role's children.                *)
FunctionArnOf(fnScope) == "${" \o fnScope \o "/" \o functionLogicalId \o "/Resource.Arn}"
FnResourceBeforeGrant ==
  /\ pc = "fn_resource"
  /\ LET fnScope == Cur.provider[1]
         role == registry[fnScope][1].role[1]
     IN  registry' = [registry EXCEPT ![fnScope] =
                        Some([@[1] EXCEPT
                                !.functionArn = Some(FunctionArnOf(fnScope)),
                                !.dependencies =
                                   DeriveDependencies(role,
                                     SelectSeq(roles[role].children,
                                               LAMBDA child : child.id # "DefaultPolicy"))])]
  /\ pc' = "grants"
  /\ UNCHANGED <<cur, nodes, roles, descriptors, result, pre, factoryRuns, glueVars>>
FnResource ==
  /\ pc = "fn_resource"
  /\ LET fnScope == Cur.provider[1]
         role == registry[fnScope][1].role[1]
     IN  registry' = [registry EXCEPT ![fnScope] =
                        Some([@[1] EXCEPT
                                !.functionArn = Some(FunctionArnOf(fnScope)),
                                !.dependencies = DeriveDependencies(role, roles[role].children)])]
  /\ pc' = "grants"
  /\ UNCHANGED <<cur, nodes, roles, descriptors, result, pre, factoryRuns, glueVars>>

(* LogRetentionFunction.grantDeleteLogGroup / grantPropagateTagsToLogGroup *)
GrantDeleteLogGroupReplacing(rs, role, logGroupArn) ==
  [rs EXCEPT ![role].statements = <<DeleteLogGroupStatement(logGroupArn)>>]
GrantDeleteLogGroup(rs, role, logGroupArn) ==
  AddToPrincipalPolicy(rs, role, DeleteLogGroupStatement(logGroupArn))
GrantPropagateTagsToLogGroup(rs, role, logGroupArn) ==
  AddToPrincipalPolicy(rs, role, PropagateTagsStatement(logGroupArn))

(* LogRetention constructor: this.logGroupArn and the two conditional      *)
(* grants on the provider, their conditions and the ARN each is given.     *)
AnyRemovalPolicy(props) == IsSome(props.removalPolicy)
WantsDelete(props) == props.removalPolicy = Some(DESTROY)
WantsTags(props) == props.propagateTags = Some(TRUE)
DeleteGrantArn(props) == LogGroupArn(props)
TagsGrantArnSuffixed(props) == LogGroupArn(props)
TagsGrantArn(props) == LogGroupBaseArn(props)
RequesterRole(fnScope) ==
  IF IsSome(Cur.props.role) THEN Cur.props.role[1] ELSE registry[fnScope][1].role[1]
ProviderRole(fnScope) == registry[fnScope][1].role[1]
GrantsSkipped ==
  /\ pc = "grants"
  /\ pc' = "emit"
  /\ UNCHANGED <<cur, nodes, registry, roles, descriptors, result, pre, factoryRuns, glueVars>>
Grants ==
  /\ pc = "grants"
  /\ LET props == Cur.props
         role == ProviderRole(Cur.provider[1])
         rs1 == IF WantsDelete(props)
                  THEN GrantDeleteLogGroup(roles, role, DeleteGrantArn(props))
                  ELSE roles
         rs2 == IF WantsTags(props)
                  THEN GrantPropagateTagsToLogGroup(rs1, role, TagsGrantArn(props))
                  ELSE rs1
     IN  /\ nodes' = {IF n.path = Path(Cur.scope, Cur.id)
                         THEN [n EXCEPT !.logGroupArn = Some(LogGroupArn(props))]
                         ELSE n : n \in nodes}
         /\ roles' = rs2
  /\ pc' = "emit"
  /\ UNCHANGED <<cur, registry, descriptors, result, pre, factoryRuns, glueVars>>

(* LogRetention constructor: the Custom::LogRetention resource; computing  *)
(* SdkRetry.base throws when the duration is no whole number of            *)
(* milliseconds.                                                           *)
EmitBeforeThrow ==
  /\ pc = "emit"
  /\ descriptors' = Append(descriptors,
        Descriptor(Path(Cur.scope, Cur.id), Cur.props,
                   registry[Cur.provider[1]][1].functionArn[1]))
  /\ result' = IF RetryThrows(Cur.props.logRetentionRetryOptions)
                 THEN DurationError ELSE "ok"
  /\ pc' = "idle"
  /\ cur' = None
  /\ UNCHANGED <<nodes, registry, roles, pre, factoryRuns, glueVars>>
Emit ==
  /\ pc = "emit"
  /\ IF RetryThrows(Cur.props.logRetentionRetryOptions)
       THEN /\ result' = DurationError
            /\ UNCHANGED descriptors
       ELSE /\ descriptors' = Append(descriptors,
                 Descriptor(Path(Cur.scope, Cur.id), Cur.props,
                            registry[Cur.provider[1]][1].functionArn[1]))
            /\ result' = "ok"
  /\ pc' = "idle"
  /\ cur' = None
  /\ UNCHANGED <<nodes, registry, roles, pre, factoryRuns, glueVars>>

-----------------------------------------------------------------------------
(* glue.S3Table: the schema validation done on construction.  A column is  *)
(* modelled by its name.  The names of columns then partition keys are     *)
(* scanned in order; the first name seen before is reported.               *)
AtLeastOneColumnError == "you must specify at least one column for the table"
DuplicateNameError(name) ==
  "column names and partition keys must be unique, but '" \o name \o "' is duplicated"

SchemaNames(columns, partitionKeys) ==
  columns \o (IF IsSome(partitionKeys) THEN partitionKeys[1] ELSE <<>>)
SeenBefore(names, i) == \E j \in 1..(i - 1) : names[j] = names[i]
DuplicatesIn(names) == {i \in 1..Len(names) : SeenBefore(names, i)}
Min(S) == CHOOSE x \in S : \A y \in S : x <= y

ValidateColumnsOnly(columns, partitionKeys) ==
  IF columns = <<>> THEN AtLeastOneColumnError
  ELSE IF DuplicatesIn(columns) # {}
         THEN DuplicateNameError(columns[Min(DuplicatesIn(columns))])
         ELSE "ok"
ValidateSchema(columns, partitionKeys) ==
  IF columns = <<>> THEN AtLeastOneColumnError
  ELSE LET names == SchemaNames(columns, partitionKeys)
       IN  IF DuplicatesIn(names) # {}
             THEN DuplicateNameError(names[Min(DuplicatesIn(names))])
             ELSE "ok"

ColumnNames == {"col1", "p1"}
NameLists == UNION {[1..k -> ColumnNames] : k \in 0..MaxColumns}

(* new glue.S3Table(stack, 'table', {columns, partitionKeys, ...}) in a    *)
(* stack of its own: the table is created unless validation throws.        *)
CreateTable ==
  /\ Len(tables) < MaxTables
  /\ \E columns \in NameLists, partitionKeys \in {None} \cup {Some(l) : l \in NameLists} :
       /\ tableInput' = Some([columns |-> columns, partitionKeys |-> partitionKeys])
       /\ tableResult' = ValidateSchema(columns, partitionKeys)
       /\ tables' = IF ValidateSchema(columns, partitionKeys) = "ok"
                      THEN Append(tables, [columns |-> columns,
                                           partitionKeys |-> partitionKeys])
                      ELSE tables
  /\ UNCHANGED logsVars

NextOver(In) ==
  \/ Construct(In)
  \/ EnsureSingleton
  \/ FnRole(In)
  \/ FnResource
  \/ Grants
  \/ Emit

Next == NextOver(SharedIn)
Spec == Init /\ [][Next]_vars

NextDescriptor == NextOver(DescriptorIn)
SpecDescriptor == Init /\ [][NextDescriptor]_vars

NextRole == NextOver(RoleIn)
SpecRole == Init /\ [][NextRole]_vars

SpecTable == Init /\ [][CreateTable]_vars

-----------------------------------------------------------------------------
(* Vocabulary of the properties.                                           *)
InSeq(x, seq) == \E i \in 1..Len(seq) : seq[i] = x
Count(x, seq) == Cardinality({i \in 1..Len(seq) : seq[i] = x})
Range(seq) == {seq[i] : i \in 1..Len(seq)}
Policy(role) == RenderPolicy(roles[role].statements)
TheFunction == registry[StackScope][1]
FunctionRegistered == IsSome(registry[StackScope])
FunctionHasRole == FunctionRegistered /\ IsSome(TheFunction.role)
FunctionComplete == FunctionRegistered /\ IsSome(TheFunction.functionArn)
IsProviderRole(role) == FunctionHasRole /\ TheFunction.role = Some(role)
NodeOf(descriptor) == CHOOSE n \in nodes : n.path \o "/Resource" = descriptor.node
ExpectedBaseArn(props) ==
  "arn:${AWS::Partition}:logs:"
    \o (IF props.logGroupRegion = <<>> THEN "${AWS::Region}" ELSE props.logGroupRegion[1])
    \o ":${AWS::AccountId}:log-group:" \o props.logGroupName
ArnUniverse ==
  UNION {Range(st.resources) : st \in UNION {Range(roles[r].statements) : r \in AllRoles}}
    \cup {ExpectedBaseArn(n.props) : n \in nodes}
    \cup {ExpectedBaseArn(n.props) \o ":*" : n \in nodes}
TagActions == {"logs:ListTagsForResource", "logs:TagResource", "logs:UntagResource"}
HasDeleteStatement(role, arn) ==
  \E st \in Range(Policy(role)) :
    InSeq("logs:DeleteLogGroup", st.actions) /\ InSeq(arn, st.resources)
HasTagsStatement(role, arn) ==
  \E st \in Range(Policy(role)) :
    Range(st.actions) = TagActions /\ st.resources = <<arn>>

-----------------------------------------------------------------------------
(* C1: within the stack every lookup returns the one LogRetentionFunction  *)
(* registered under the stack, its constructor has run exactly once, and   *)
(* every Custom::LogRetention resource has that function's Arn as its      *)
(* ServiceToken, whatever the scope, id and props of the construction.     *)
C1_SingletonFunction ==
  /\ factoryRuns <= 1
  /\ \A s \in AllScopes : IsSome(registry[s]) => s = StackScope
  /\ (IsSome(cur) /\ IsSome(Cur.provider)) =>
       (Cur.provider = Some(StackScope) /\ factoryRuns = 1)
  /\ \A i \in 1..Len(descriptors) :
       /\ descriptors[i].ServiceToken = "${Stack/" \o functionLogicalId \o "/Resource.Arn}"
       /\ factoryRuns = 1
C1_Witness ==
  \E i, j \in 1..Len(descriptors) :
    /\ descriptors[i].node = Path(StackScope, "A") \o "/Resource"
    /\ descriptors[j].node = Path(NestedScope, "B") \o "/Resource"
    /\ descriptors[i].LogGroupName # descriptors[j].LogGroupName
    /\ descriptors[i].ServiceToken = descriptors[j].ServiceToken

(* C2: every statement granted on a role, however many times it was        *)
(* granted, occurs exactly once in the role's rendered policy.             *)
C2_GrantDedup ==
  \A r \in AllRoles : \A st \in Range(roles[r].statements) :
    Count(st, Policy(r)) = 1
C2_Witness ==
  \E r \in AllRoles : \E arn \in ArnUniverse :
    /\ Count(DeleteLogGroupStatement(arn \o ":*"), roles[r].statements) = 2
    /\ Count(PropagateTagsStatement(arn), roles[r].statements) = 2

(* C3: when no construction is running, a role's policy has a              *)
(* logs:DeleteLogGroup statement on resource X exactly when the role is    *)
(* the provider's and some LogRetention construct has removalPolicy        *)
(* DESTROY and X is that construct's base ARN followed by ':*'.            *)
C3_DeleteGrantIffDestroy ==
  pc = "idle" =>
    \A r \in AllRoles : \A arn \in ArnUniverse :
      HasDeleteStatement(r, arn) <=>
        /\ IsProviderRole(r)
        /\ \E n \in nodes :
             /\ n.props.removalPolicy = <<"destroy">>
             /\ arn = ExpectedBaseArn(n.props) \o ":*"
C3_Witness ==
  /\ pc = "idle"
  /\ \E n, m \in nodes : \E r \in AllRoles :
       /\ n.props.removalPolicy = <<"destroy">>
       /\ m.props.removalPolicy = <<"retain">>
       /\ n.props.logGroupName # m.props.logGroupName
       /\ HasDeleteStatement(r, ExpectedBaseArn(n.props) \o ":*")
       /\ ~HasDeleteStatement(r, ExpectedBaseArn(m.props) \o ":*")

(* C4: when no construction is running, a role's policy has a statement    *)
(* with exactly the three tagging actions on the single resource X exactly *)
(* when the role is the provider's and some LogRetention construct has     *)
(* propagateTags true and X is that construct's base ARN; no tagging       *)
(* action occurs in any other statement; and a construct that has both     *)
(* grants has its delete grant on the tagging resource followed by ':*'.   *)
C4_TagsGrantOnBaseArn ==
  pc = "idle" =>
    /\ \A r \in AllRoles : \A arn \in ArnUniverse :
         HasTagsStatement(r, arn) <=>
           /\ IsProviderRole(r)
           /\ \E n \in nodes :
                n.props.propagateTags = <<TRUE>> /\ arn = ExpectedBaseArn(n.props)
    /\ \A r \in AllRoles : \A st \in Range(Policy(r)) :
         Range(st.actions) \cap TagActions # {} =>
           Range(st.actions) = TagActions /\ Len(st.resources) = 1
    /\ \A n \in nodes :
         (n.props.propagateTags = <<TRUE>> /\ n.props.removalPolicy = <<"destroy">>) =>
           \E r \in AllRoles : \E t, d \in Range(Policy(r)) :
             /\ Range(t.actions) = TagActions
             /\ t.resources = <<ExpectedBaseArn(n.props)>>
             /\ d.actions = <<"logs:DeleteLogGroup">>
             /\ d.resources = <<t.resources[1] \o ":*">>
C4_Witness ==
  /\ pc = "idle"
  /\ \E n, m \in nodes : \E r \in AllRoles :
       /\ n.props.propagateTags = <<TRUE>>
       /\ n.props.removalPolicy = <<"destroy">>
       /\ m.props.propagateTags = <<FALSE>>
       /\ n.props.logGroupName # m.props.logGroupName
       /\ HasTagsStatement(r, ExpectedBaseArn(n.props))
       /\ ~HasTagsStatement(r, ExpectedBaseArn(m.props))

-----------------------------------------------------------------------------
(* The function's role, its children and the recorded addDependency calls. *)
FunctionRole == TheFunction.role[1]
Kids == roles[FunctionRole].children
Deps == TheFunction.dependencies
ConcreteKids == {i \in 1..Len(Kids) : Kids[i].isCfnResource}
CompositeOnlyKids ==
  {i \in 1..Len(Kids) : ~Kids[i].isCfnResource /\ Kids[i].defaultChild = "cfn"}
DefaultExposingKids == {i \in 1..Len(Kids) : Kids[i].defaultChild = "cfn"}
EdgesOfKid(i) ==
  {k \in 1..Len(Deps) :
     Deps[k] \in {FunctionRole \o "/" \o Kids[i].id,
                  FunctionRole \o "/" \o Kids[i].id \o "/Resource"}}

(* C5 as stated: the function has one dependency per child that is a       *)
(* concrete resource or else a composite with a concrete default child,    *)
(* so N + M dependencies, each child contributing at most once.            *)
C5_OneEdgePerChild ==
  FunctionComplete =>
    /\ Len(Deps) = Cardinality(ConcreteKids) + Cardinality(CompositeOnlyKids)
    /\ \A i \in 1..Len(Kids) :
         Cardinality(EdgesOfKid(i)) =
           (IF i \in ConcreteKids \cup CompositeOnlyKids THEN 1 ELSE 0)

(* C5 amended: the two tests are independent.  A child that is a concrete  *)
(* resource contributes itself, a child whose default child is a concrete  *)
(* resource contributes that default child, a child passing both tests     *)
(* contributes both, a child passing neither contributes nothing; the      *)
(* dependencies are pairwise distinct and there are no others.             *)
C5_EdgesPerShape ==
  FunctionComplete =>
    /\ Len(Deps) = Cardinality(ConcreteKids) + Cardinality(DefaultExposingKids)
    /\ \A k, l \in 1..Len(Deps) : Deps[k] = Deps[l] => k = l
    /\ \A i \in 1..Len(Kids) :
         /\ InSeq(FunctionRole \o "/" \o Kids[i].id, Deps) <=> i \in ConcreteKids
         /\ InSeq(FunctionRole \o "/" \o Kids[i].id \o "/Resource", Deps)
              <=> i \in DefaultExposingKids
    /\ \A k \in 1..Len(Deps) : \E i \in 1..Len(Kids) : k \in EdgesOfKid(i)
C5_Witness ==
  /\ FunctionComplete
  /\ FunctionRole = UserRole
  /\ \E i, j, k \in 1..Len(Kids) :
       /\ Kids[i].isCfnResource /\ Kids[i].defaultChild = "cfn"
       /\ ~Kids[j].isCfnResource /\ Kids[j].defaultChild # "cfn"
       /\ ~Kids[k].isCfnResource /\ Kids[k].defaultChild = "cfn"
       /\ Cardinality(EdgesOfKid(i)) = 2
       /\ Cardinality(EdgesOfKid(j)) = 0
       /\ Cardinality(EdgesOfKid(k)) = 1

(* C6: every emitted resource has no RetentionInDays when its construct's  *)
(* retention is RetentionDays.INFINITE, and otherwise has RetentionInDays  *)
(* equal to that retention, whatever the other props and whether or not    *)
(* the function existed before.                                            *)
C6_RetentionOmittedWhenInfinite ==
  \A i \in 1..Len(descriptors) :
    LET d == descriptors[i]
        props == NodeOf(d).props
    IN  /\ props.retention = 9999 => d.RetentionInDays = <<>>
        /\ props.retention # 9999 => d.RetentionInDays = <<props.retention>>
C6_Witness ==
  /\ Len(descriptors) = 2
  /\ NodeOf(descriptors[1]).props.retention = 14
  /\ descriptors[1].RetentionInDays = <<14>>
  /\ NodeOf(descriptors[2]).props.retention = 9999
  /\ descriptors[2].RetentionInDays = <<>>
  /\ descriptors[2].RemovalPolicy = <<"destroy">>
  /\ descriptors[2].PropagateTags = <<TRUE>>

(* C7: once the function has its role, the role's policy holds the         *)
(* statement {logs:PutRetentionPolicy, logs:DeleteRetentionPolicy} on '*', *)
(* and no statement with either action names any other resource.           *)
C7_BaselineGrant ==
  FunctionHasRole =>
    /\ InSeq([actions |-> <<"logs:PutRetentionPolicy", "logs:DeleteRetentionPolicy">>,
              resources |-> <<"*">>],
             Policy(FunctionRole))
    /\ \A st \in Range(Policy(FunctionRole)) :
         Range(st.actions) \cap {"logs:PutRetentionPolicy", "logs:DeleteRetentionPolicy"} # {}
           => st.resources = <<"*">>
C7_Witness ==
  /\ FunctionHasRole
  /\ FunctionRole = UserRole
  /\ pc = "idle"
  /\ \A n \in nodes : n.props.removalPolicy = <<>> /\ n.props.propagateTags = <<>>
  /\ Len(descriptors) = 2

(* C8 as stated: when a construction has thrown, the registry, the roles   *)
(* and the emitted resources are what they were when it started.           *)
C8_ErrorBeforeMutation ==
  result \in Errors => Snapshot = pre

(* C8 amended: a construction that has thrown has emitted no resource; if  *)
(* it threw for a duplicate id, the registry and the roles are unchanged   *)
(* as well.                                                                *)
C8_FailedBuildEmitsNothing ==
  result \in Errors =>
    /\ descriptors = pre.descriptors
    /\ result = DuplicateIdError => Snapshot = pre
C8_Witness ==
  /\ result = DurationError
  /\ registry # pre.registry
  /\ roles # pre.roles
  /\ pre.descriptors = <<>>

-----------------------------------------------------------------------------
InputNames ==
  tableInput[1].columns
    \o (IF tableInput[1].partitionKeys = <<>> THEN <<>> ELSE tableInput[1].partitionKeys[1])
Repeated(names) == {names[i] : i \in {k \in 1..Len(names) : Count(names[k], names) > 1}}
ValidTable(t) ==
  /\ t.columns # <<>>
  /\ Repeated(t.columns \o (IF t.partitionKeys = <<>> THEN <<>> ELSE t.partitionKeys[1])) = {}

(* C9: constructing an S3Table throws when the column list is empty or a   *)
(* name occurs twice among the column and partition-key names; the         *)
(* 'at least one column' error is only given for an empty column list and  *)
(* the duplicate error names a name that does occur twice; otherwise the   *)
(* table is created; and no table with an invalid schema is ever created.  *)
C9_SchemaValidation ==
  /\ \A i \in 1..Len(tables) : ValidTable(tables[i])
  /\ IsSome(tableInput) =>
       /\ (tableInput[1].columns = <<>> \/ Repeated(InputNames) # {}) =>
            tableResult \in {"you must specify at least one column for the table"}
              \cup {"column names and partition keys must be unique, but '" \o n
                      \o "' is duplicated" : n \in Repeated(InputNames)}
       /\ tableResult = "you must specify at least one column for the table" =>
            tableInput[1].columns = <<>>
       /\ (tableInput[1].columns # <<>> /\ Repeated(InputNames) = {}) =>
            /\ tableResult = "ok"
            /\ Len(tables) > 0
            /\ tables[Len(tables)] = tableInput[1]
C9_Witness ==
  /\ Len(tables) = 1
  /\ tableInput = Some([columns |-> <<"col1">>, partitionKeys |-> Some(<<"col1">>)])
  /\ tableResult = "column names and partition keys must be unique, but 'col1' is duplicated"

(* C10: the step that creates a Custom::LogRetention resource changes      *)
(* neither the roles nor the registry, and the grants that resource's      *)
(* construct asks for (delete on its ARN with ':*' for DESTROY, tagging on *)
(* its base ARN for propagateTags) are on the provider's role before that  *)
(* step; so they are there for every resource that exists.                 *)
GrantsPresentFor(props) ==
  /\ props.removalPolicy = <<"destroy">> =>
       FunctionHasRole /\ HasDeleteStatement(FunctionRole, ExpectedBaseArn(props) \o ":*")
  /\ props.propagateTags = <<TRUE>> =>
       FunctionHasRole /\ HasTagsStatement(FunctionRole, ExpectedBaseArn(props))
C10_GrantsBeforeDescriptor ==
  /\ [][descriptors' # descriptors =>
          /\ roles' = roles
          /\ registry' = registry
          /\ IsSome(cur) /\ GrantsPresentFor(Cur.props)
          /\ descriptors' = Append(descriptors, descriptors'[Len(descriptors')])
          /\ descriptors'[Len(descriptors')].node = Path(Cur.scope, Cur.id) \o "/Resource"]_vars
  /\ [](\A i \in 1..Len(descriptors) : GrantsPresentFor(NodeOf(descriptors[i]).props))
C10_Witness ==
  \E i, j \in 1..Len(descriptors) :
    /\ descriptors[i].RemovalPolicy = <<"destroy">>
    /\ descriptors[j].PropagateTags = <<TRUE>>
    /\ GrantsPresentFor(NodeOf(descriptors[i]).props)
    /\ GrantsPresentFor(NodeOf(descriptors[j]).props)

-----------------------------------------------------------------------------
(* C11: the function's dependencies are set by one step only, the one that *)
(* completes the function, and are never changed afterwards; and once the  *)
(* function is complete, through all later constructions and their grants  *)
(* and also for a role supplied by the caller, every child of the          *)
(* function's role that is a concrete resource, and every concrete default *)
(* child of such a child (the role's DefaultPolicy among them), is among   *)
(* the function's dependencies.                                            *)
C11_DependenciesCoverRoleChildren ==
  /\ [][(FunctionRegistered /\ registry'[StackScope][1].dependencies # Deps) =>
          (pc = "fn_resource" /\ ~FunctionComplete /\ Deps = <<>>)]_vars
  /\ [](FunctionComplete =>
          /\ \E i \in 1..Len(Kids) : Kids[i].id = "DefaultPolicy"
          /\ \A i \in 1..Len(Kids) :
               /\ Kids[i].isCfnResource => InSeq(FunctionRole \o "/" \o Kids[i].id, Deps)
               /\ Kids[i].defaultChild = "cfn" =>
                    InSeq(FunctionRole \o "/" \o Kids[i].id \o "/Resource", Deps))
C11_Witness ==
  /\ pc = "idle"
  /\ Len(descriptors) = 2
  /\ FunctionRole = UserRole
  /\ Len(Kids) = 3
  /\ Kids[1].isCfnResource
  /\ Len(roles[UserRole].statements) = 3
  /\ descriptors[1].RemovalPolicy = <<>>
  /\ descriptors[2].RemovalPolicy = <<"destroy">>
  /\ descriptors[2].PropagateTags = <<TRUE>>
  /\ InSeq("UserRole/DefaultPolicy/Resource", Deps)
  /\ InSeq("UserRole/c1", Deps)

(* C12: while the LogRetentionFunction constructor is running (after its   *)
(* super call and before it returns) a lookup of the logical id in the     *)
(* stack already finds the function under construction, whichever scope    *)
(* the requesting construct is in; every run of the constructor has        *)
(* registered one child, and there is never more than one.                 *)
C12_KeyReservedDuringFactory ==
  /\ pc \in {"fn_role", "fn_resource"} =>
       /\ registry["Stack"] # <<>>
       /\ registry["Stack"][1].functionArn = <<>>
       /\ factoryRuns = 1
  /\ Cardinality({s \in AllScopes : registry[s] # <<>>}) = factoryRuns
  /\ factoryRuns <= 1
C12_Witness ==
  /\ pc = "fn_role"
  /\ Cur.scope = NestedScope
  /\ registry["Stack"] = <<[role |-> <<>>, functionArn |-> <<>>, dependencies |-> <<>>]>>
  /\ registry[NestedScope] = <<>>

(* C13: in every step and for every role, the statements granted before    *)
(* the step are still there after it, unaltered and in the same order, and *)
(* so is every statement of the rendered policy; statements are added only *)
(* to the function's role, and only the baseline statement by the step     *)
(* that gives the function its role, or the running construction's delete  *)
(* statement (base ARN with ':*') and tagging statement (base ARN) by its  *)
(* grants step.                                                            *)
C13_StatementsOnlyGrow ==
  [][\A r \in AllRoles :
       LET before == roles[r].statements
           after == roles'[r].statements
           added == SubSeq(after, Len(before) + 1, Len(after))
       IN  /\ Len(after) >= Len(before)
           /\ SubSeq(after, 1, Len(before)) = before
           /\ \A st \in Range(RenderPolicy(before)) : st \in Range(RenderPolicy(after))
           /\ added # <<>> =>
                /\ registry'["Stack"] # <<>> /\ registry'["Stack"][1].role = <<r>>
                /\ \/ /\ pc = "fn_role"
                      /\ added = <<[actions |-> <<"logs:PutRetentionPolicy",
                                                  "logs:DeleteRetentionPolicy">>,
                                    resources |-> <<"*">>]>>
                   \/ /\ pc = "grants"
                      /\ Range(added) \subseteq
                           {[actions |-> <<"logs:DeleteLogGroup">>,
                             resources |-> <<ExpectedBaseArn(Cur.props) \o ":*">>],
                            [actions |-> <<"logs:ListTagsForResource", "logs:TagResource",
                                           "logs:UntagResource">>,
                             resources |-> <<ExpectedBaseArn(Cur.props)>>]}]_vars
C13_Witness ==
  /\ pc = "idle"
  /\ Len(descriptors) = 2
  /\ \E r \in AllRoles :
       /\ Len(roles[r].statements) = 5
       /\ roles[r].statements[1].resources = <<"*">>
       /\ pre.roles[r].statements = SubSeq(roles[r].statements, 1, 3)
       /\ roles[r].statements[2] # roles[r].statements[4]

-----------------------------------------------------------------------------
(* C14 as stated: the LogGroupArn of every emitted resource is the base    *)
(* ARN of its construct followed by ':*', the value of the construct's     *)
(* logGroupArn attribute, and differs from the ARN of the tagging grant.   *)
C14_DescriptorArnSuffixed ==
  \A i \in 1..Len(descriptors) :
    LET d == descriptors[i]
        n == NodeOf(d)
    IN  /\ d.LogGroupArn = ExpectedBaseArn(n.props) \o ":*"
        /\ n.logGroupArn = <<d.LogGroupArn>>
        /\ ~HasTagsStatement(FunctionRole, d.LogGroupArn)

(* C14 amended: the LogGroupArn of every emitted resource is the base ARN  *)
(* of its construct, without ':*'; the construct's logGroupArn attribute   *)
(* is that value followed by ':*'; and when the construct has              *)
(* propagateTags true, the tagging grant is on the resource's LogGroupArn  *)
(* itself, and not on the attribute's value.                               *)
C14_DescriptorArnIsBase ==
  \A i \in 1..Len(descriptors) :
    LET d == descriptors[i]
        n == NodeOf(d)
    IN  /\ d.LogGroupArn = ExpectedBaseArn(n.props)
        /\ n.logGroupArn = <<d.LogGroupArn \o ":*">>
        /\ n.props.propagateTags = <<TRUE>> =>
             /\ HasTagsStatement(FunctionRole, d.LogGroupArn)
             /\ ~HasTagsStatement(FunctionRole, n.logGroupArn[1])
C14_Witness ==
  \E i \in 1..Len(descriptors) :
    /\ descriptors[i].LogGroupArn =
         "arn:${AWS::Partition}:logs:us-west-2:${AWS::AccountId}:log-group:group1"
    /\ NodeOf(descriptors[i]).logGroupArn =
         <<"arn:${AWS::Partition}:logs:us-west-2:${AWS::AccountId}:log-group:group1:*">>
    /\ descriptors[i].PropagateTags = <<TRUE>>
    /\ HasTagsStatement(FunctionRole, descriptors[i].LogGroupArn)

(* C15: every emitted resource has an SdkRetry exactly when its construct  *)
(* was given retry options; SdkRetry.maxRetries is then the option's       *)
(* maxRetries, present or absent as given, and SdkRetry.base is absent     *)
(* when the option's base is, and otherwise the base duration as a number  *)
(* of milliseconds; neither sub-field depends on the other.                *)
C15_SdkRetryFollowsOptions ==
  \A i \in 1..Len(descriptors) :
    LET d == descriptors[i]
        opts == NodeOf(d).props.logRetentionRetryOptions
    IN  /\ d.SdkRetry = <<>> <=> opts = <<>>
        /\ opts # <<>> =>
             /\ DOMAIN d.SdkRetry[1] = {"maxRetries", "base"}
             /\ d.SdkRetry[1].maxRetries = opts[1].maxRetries
             /\ d.SdkRetry[1].base = <<>> <=> opts[1].base = <<>>
             /\ opts[1].base # <<>> =>
                  d.SdkRetry[1].base[1] * opts[1].base[1].den
                    = opts[1].base[1].num * opts[1].base[1].unitInMillis
C15_Witness ==
  /\ Len(descriptors) = 2
  /\ descriptors[1].SdkRetry = <<[maxRetries |-> <<5>>, base |-> <<>>]>>
  /\ descriptors[2].SdkRetry = <<[maxRetries |-> <<>>, base |-> <<500>>]>>

-----------------------------------------------------------------------------
(* C16: the function's role is the role prop of the construction that      *)
(* created the function, or the new ServiceRole when that prop was absent, *)
(* and never changes; once the function is complete no step changes the    *)
(* function, runs its constructor again, creates a role, gives a role a    *)
(* child, touches a role other than the function's, or grants the baseline *)
(* statement again: a step only appends, to the function's role, the       *)
(* delete and tagging statements of the running construction.  So the only *)
(* role created or granted on is the function's, whatever role later       *)
(* constructions supply, and it holds the baseline statement once.         *)
C16_ExistingFunctionReused ==
  /\ [][/\ (~FunctionHasRole /\ registry'["Stack"] # <<>>
                              /\ registry'["Stack"][1].role # <<>>) =>
            registry'["Stack"][1].role =
              (IF Cur.props.role # <<>> THEN Cur.props.role
               ELSE <<"Stack/LogRetentionaae0aa3c5b4d4f87b02d85b201efdd8a/ServiceRole">>)
        /\ FunctionHasRole => registry'["Stack"][1].role = TheFunction.role
        /\ FunctionComplete =>
            /\ registry' = registry
            /\ factoryRuns' = factoryRuns
            /\ \A r \in AllRoles :
                 /\ roles'[r].exists = roles[r].exists
                 /\ roles'[r].children = roles[r].children
                 /\ r # FunctionRole => roles'[r] = roles[r]
            /\ LET before == roles[FunctionRole].statements
                   after == roles'[FunctionRole].statements
               IN  /\ Len(after) >= Len(before)
                   /\ SubSeq(after, 1, Len(before)) = before
                   /\ \A k \in (Len(before) + 1)..Len(after) :
                        /\ pc = "grants"
                        /\ after[k] \in
                             {[actions |-> <<"logs:DeleteLogGroup">>,
                               resources |-> <<ExpectedBaseArn(Cur.props) \o ":*">>],
                              [actions |-> <<"logs:ListTagsForResource", "logs:TagResource",
                                             "logs:UntagResource">>,
                               resources |-> <<ExpectedBaseArn(Cur.props)>>]}]_vars
  /\ [](FunctionHasRole =>
          /\ {r \in AllRoles : roles[r].exists} = {FunctionRole}
          /\ \A r \in AllRoles : r # FunctionRole => roles[r].statements = <<>>
          /\ Count([actions |-> <<"logs:PutRetentionPolicy", "logs:DeleteRetentionPolicy">>,
                    resources |-> <<"*">>],
                   roles[FunctionRole].statements) = 1)
C16_Witness ==
  /\ pc = "idle"
  /\ Len(descriptors) = 2
  /\ factoryRuns = 1
  /\ NodeOf(descriptors[1]).props.role = <<>>
  /\ NodeOf(descriptors[2]).props.role = <<"UserRole">>
  /\ descriptors[2].RemovalPolicy = <<"destroy">>
  /\ descriptors[2].PropagateTags = <<TRUE>>
  /\ FunctionRole = "Stack/LogRetentionaae0aa3c5b4d4f87b02d85b201efdd8a/ServiceRole"
  /\ Len(roles[FunctionRole].statements) = 3
  /\ ~roles["UserRole"].exists

====
